---- MODULE Spec2Model ----
(***************************************************************************)
(* A model of macos-routing-table: the netstat -rn snapshot parser         *)
(* (RoutingTable::from_netstat_output, RouteEntry::parse,                  *)
(* parse_destination) and the resolver (RoutingTable::find_route_entry,    *)
(* RouteEntry::contains, RouteEntry::most_precise).                        *)
(*                                                                         *)
(* Text is modelled as sequences of one-character strings, so that every   *)
(* split, prefix test and numeric parse is computed the way the code       *)
(* computes it.  A snapshot is the sequence of its lines (what             *)
(* str::lines() iterates over); the table builder reads it line by line.   *)
(***************************************************************************)
EXTENDS Integers, Sequences, FiniteSets, TLC

(***************************************************************************)
(* Option and Result values.                                               *)
(***************************************************************************)
None == <<>>

Some(x) == <<x>>

IsSome(o) == Len(o) = 1

Unwrap(o) == o[1]

Ok(v) == [ok |-> TRUE, val |-> v]

Err(e) == [ok |-> FALSE, err |-> e]

(***************************************************************************)
(* Characters and the std string operations the parser uses.               *)
(***************************************************************************)
DecDigits == <<"0", "1", "2", "3", "4", "5", "6", "7", "8", "9">>

HexLower == DecDigits \o <<"a", "b", "c", "d", "e", "f">>

HexUpper == DecDigits \o <<"A", "B", "C", "D", "E", "F">>

\* char::to_digit(radix): the digit value of c, or -1 when c is no digit.
ToDigit(c, radix) ==
    IF \E i \in 1..radix : HexLower[i] = c
    THEN (CHOOSE i \in 1..radix : HexLower[i] = c) - 1
    ELSE IF \E i \in 1..radix : HexUpper[i] = c
    THEN (CHOOSE i \in 1..radix : HexUpper[i] = c) - 1
    ELSE -1

\* char::is_ascii_whitespace, on the characters of the model's alphabet.
IsAsciiWhitespace(c) == c \in {" ", "\t"}

\* str::contains(char)
Contains(s, c) == \E i \in 1..Len(s) : s[i] = c

\* str::starts_with(&str)
StartsWith(s, p) == Len(s) >= Len(p) /\ SubSeq(s, 1, Len(p)) = p

\* str::find(char): the 1-based position of the first c, 0 when absent.
Find(s, c) ==
    IF Contains(s, c)
    THEN CHOOSE i \in 1..Len(s) : s[i] = c /\ \A j \in 1..(i - 1) : s[j] # c
    ELSE 0

\* str::rfind(char): the 1-based position of the last c, 0 when absent.
RFind(s, c) ==
    IF Contains(s, c)
    THEN CHOOSE i \in 1..Len(s) : s[i] = c /\ \A j \in (i + 1)..Len(s) : s[j] # c
    ELSE 0

\* str::split(pattern) for a set of separator characters: always at least
\* one part, empty parts kept.
RECURSIVE Split(_, _)
Split(s, seps) ==
    IF \E i \in 1..Len(s) : s[i] \in seps
    THEN LET i == CHOOSE k \in 1..Len(s) :
                      s[k] \in seps /\ \A j \in 1..(k - 1) : s[j] \notin seps
         IN  <<SubSeq(s, 1, i - 1)>> \o Split(SubSeq(s, i + 1, Len(s)), seps)
    ELSE <<s>>

\* str::split_ascii_whitespace: the maximal runs of non-whitespace.
RECURSIVE split_ascii_whitespace(_)
split_ascii_whitespace(s) ==
    IF s = <<>> THEN <<>>
    ELSE IF IsAsciiWhitespace(s[1]) THEN split_ascii_whitespace(Tail(s))
    ELSE LET n == IF \E i \in 1..Len(s) : IsAsciiWhitespace(s[i])
                  THEN (CHOOSE i \in 1..Len(s) :
                            IsAsciiWhitespace(s[i])
                            /\ \A j \in 1..(i - 1) : ~IsAsciiWhitespace(s[j])) - 1
                  ELSE Len(s)
         IN  <<SubSeq(s, 1, n)>> \o split_ascii_whitespace(SubSeq(s, n + 1, Len(s)))

\* str::replace(from, to) for single characters.
Replace(s, from, to) == [i \in 1..Len(s) |-> IF s[i] = from THEN to ELSE s[i]]


\* The digits of s accumulated in the given radix onto acc; -1 on a
\* non-digit and on a value above max (the checked arithmetic of
\* from_str_radix).
RECURSIVE AccDigits(_, _, _, _)
AccDigits(s, radix, max, acc) ==
    IF s = <<>> THEN acc
    ELSE IF ToDigit(s[1], radix) < 0 \/ acc > (max - ToDigit(s[1], radix)) \div radix THEN -1
    ELSE AccDigits(Tail(s), radix, max, acc * radix + ToDigit(s[1], radix))

\* Some(v) when the text was well-formed and its value v is a number.
Checked(wellFormed, v) == IF wellFormed /\ v >= 0 THEN Some(v) ELSE None

\* <unsigned>::from_str_radix: an optional leading '+', then one or more
\* digits, no overflow.  None on every error.
ParseUInt(s, radix, max) ==
    Checked(s # <<>> /\ s # <<"+">> /\ s # <<"-">>,
            AccDigits(IF Len(s) > 1 /\ s[1] = "+" THEN Tail(s) ELSE s, radix, max, 0))

U8Max == 255

U16Max == 65535

\* Display for an unsigned integer, in decimal.
RECURSIVE FmtDec(_)
FmtDec(n) == IF n < 10 THEN <<DecDigits[n + 1]>> ELSE FmtDec(n \div 10) \o <<DecDigits[(n % 10) + 1]>>

\* LowerHex for an unsigned integer ({:x}).
RECURSIVE FmtHex(_)
FmtHex(n) == IF n < 16 THEN <<HexLower[n + 1]>> ELSE FmtHex(n \div 16) \o <<HexLower[(n % 16) + 1]>>

\* Option::map
MapSome(o, F(_)) == IF IsSome(o) THEN Some(F(Unwrap(o))) ELSE None

\* Option::or
FirstSome(a, b) == IF IsSome(a) THEN a ELSE b

\* Option::ok_or
OkOr(o, e) == IF IsSome(o) THEN Ok(Unwrap(o)) ELSE Err(e)

\* Result::map
MapOk(r, F(_)) == IF r.ok THEN Ok(F(r.val)) ELSE r

\* Iterator::collect into an Option (or Result) of a Vec: all the values, or
\* None when one of them is None.
Collect(opts) ==
    IF \A i \in DOMAIN opts : IsSome(opts[i])
    THEN Some([i \in DOMAIN opts |-> Unwrap(opts[i])])
    ELSE None

(***************************************************************************)
(* Library types the parser relies on: std::net addresses, cidr::AnyIpCidr *)
(* and mac_address::MacAddress.  An IPv4 address is its 4 octets, an IPv6  *)
(* address its 8 16-bit groups.                                            *)
(***************************************************************************)
V4Bits == 32

V6Bits == 128

\* The address parser's read_number: 1..maxDigits digits, no sign, and (for
\* IPv4 octets) no leading zero.
ReadNumber(s, radix, maxDigits, max, allowZeroPrefix) ==
    Checked(Len(s) \in 1..maxDigits /\ (allowZeroPrefix \/ Len(s) = 1 \/ s[1] # "0"),
            AccDigits(s, radix, max, 0))

\* The value when it has n elements.
OfLen(o, n) == IF IsSome(o) /\ Len(Unwrap(o)) = n THEN o ELSE None

ReadOctets(parts) == Collect([i \in DOMAIN parts |-> ReadNumber(parts[i], 10, 3, U8Max, FALSE)])

\* Ipv4Addr::from_str: a strict dotted quad.
Ipv4FromStr(s) == OfLen(ReadOctets(Split(s, {"."})), 4)

ReadGroups(parts) == Collect([i \in DOMAIN parts |-> ReadNumber(parts[i], 16, 4, U16Max, TRUE)])

\* The groups of one side of an IPv6 literal ("" has none).
V6Side(s) == IF s = <<>> THEN Some(<<>>) ELSE ReadGroups(Split(s, {":"}))

\* The address with "::" between the groups hd and tl.
V6Join(hd, tl) ==
    IF IsSome(hd) /\ IsSome(tl) /\ Len(Unwrap(hd)) + Len(Unwrap(tl)) <= 7
    THEN Some(Unwrap(hd) \o [k \in 1..(8 - Len(Unwrap(hd)) - Len(Unwrap(tl))) |-> 0] \o Unwrap(tl))
    ELSE None

V6JoinAt(s, i) == V6Join(V6Side(SubSeq(s, 1, i - 1)), V6Side(SubSeq(s, i + 2, Len(s))))

\* The address of a literal whose "::" start at the positions dbl.
V6Literal(s, dbl) ==
    IF dbl = {} THEN OfLen(V6Side(s), 8)
    ELSE IF Cardinality(dbl) > 1 THEN None
    ELSE V6JoinAt(s, CHOOSE k \in dbl : TRUE)

\* Ipv6Addr::from_str: eight groups of hex digits, or fewer around one "::".
\* (Literals with an embedded dotted quad are outside the model's alphabet
\* of tokens and are rejected here.)
Ipv6FromStr(s) == V6Literal(s, {i \in 1..(Len(s) - 1) : s[i] = ":" /\ s[i + 1] = ":"})

\* IpAddr values.
IpV4(a) == [fam |-> "V4", addr |-> a]

IpV6(a) == [fam |-> "V6", addr |-> a]

\* IpAddr::from_str
IpAddrFromStr(s) == FirstSome(MapSome(Ipv4FromStr(s), IpV4), MapSome(Ipv6FromStr(s), IpV6))

\* Display for Ipv4Addr
FmtIpv4(a) == FmtDec(a[1]) \o <<".">> \o FmtDec(a[2]) \o <<".">> \o FmtDec(a[3]) \o <<".">> \o FmtDec(a[4])

RECURSIVE FmtGroups(_)
FmtGroups(gs) ==
    IF gs = <<>> THEN <<>>
    ELSE IF Len(gs) = 1 THEN FmtHex(gs[1])
    ELSE FmtHex(gs[1]) \o <<":">> \o FmtGroups(Tail(gs))

\* The length of the run of zero groups starting at position i.
RECURSIVE ZeroRun(_, _)
ZeroRun(a, i) == IF i > Len(a) \/ a[i] # 0 THEN 0 ELSE 1 + ZeroRun(a, i + 1)

\* The groups with the run of n zero groups at position i written "::".
FmtCompressed(a, i, n) ==
    IF n > 1
    THEN FmtGroups(SubSeq(a, 1, i - 1)) \o <<":", ":">> \o FmtGroups(SubSeq(a, i + n, 8))
    ELSE FmtGroups(a)

\* The position of the first longest run of zero groups.
LongestZeroRun(runs) ==
    CHOOSE i \in 1..8 :
        /\ \A j \in 1..8 : runs[j] <= runs[i]
        /\ \A j \in 1..(i - 1) : runs[j] < runs[i]

FmtCompressedAt(a, runs, i) == FmtCompressed(a, i, runs[i])

FmtLongest(a, runs) == FmtCompressedAt(a, runs, LongestZeroRun(runs))

\* Display for Ipv6Addr: the IPv4-mapped form, else the first longest run of
\* two or more zero groups is written "::".
FmtIpv6(a) ==
    IF SubSeq(a, 1, 6) = <<0, 0, 0, 0, 0, 65535>>
    THEN <<":", ":", "f", "f", "f", "f", ":">>
         \o FmtIpv4(<<a[7] \div 256, a[7] % 256, a[8] \div 256, a[8] % 256>>)
    ELSE FmtLongest(a, [i \in 1..8 |-> ZeroRun(a, i)])

FmtIpAddr(ip) == IF ip.fam = "V4" THEN FmtIpv4(ip.addr) ELSE FmtIpv6(ip.addr)

RECURSIVE Pow2(_)
Pow2(n) == IF n = 0 THEN 1 ELSE 2 * Pow2(n - 1)

FamilyBits(fam) == IF fam = "V4" THEN V4Bits ELSE V6Bits

\* The width in bits of one element of an address of the family.
UnitBits(fam) == IF fam = "V4" THEN 8 ELSE 16

\* x with its low n bits cleared.
ClearLow(x, unit) == (x \div unit) * unit

\* The address, of elements w bits wide, with every bit after the first len
\* bits cleared.
MaskUnits(a, w, len) ==
    [i \in DOMAIN a |->
        IF len >= i * w THEN a[i]
        ELSE IF len <= (i - 1) * w THEN 0
        ELSE ClearLow(a[i], Pow2(i * w - len))]

MaskAddr(fam, a, len) == MaskUnits(a, UnitBits(fam), len)

\* cidr::AnyIpCidr: Any, or a network of one family with its length.
AnyCidr == [fam |-> "Any", addr |-> <<>>, len |-> None]

MkCidr(fam, a, len) == [fam |-> fam, addr |-> a, len |-> Some(len)]

\* AnyIpCidr::new_host
new_host(ip) == MkCidr(ip.fam, ip.addr, FamilyBits(ip.fam))

\* AnyIpCidr::network_length: None for Any.
network_length(c) == c.len

\* AnyIpCidr::is_host_address: false for Any.
is_host_address(c) == c.fam # "Any" /\ c.len = Some(FamilyBits(c.fam))

\* AnyIpCidr::first_address: None for Any.
first_address(c) == IF c.fam = "Any" THEN None ELSE Some([fam |-> c.fam, addr |-> c.addr])

\* AnyIpCidr::contains: Any contains every address; a network contains the
\* addresses of its family that agree with it on the prefix.
CidrContains(c, ip) ==
    \/ c.fam = "Any"
    \/ c.fam = ip.fam /\ MaskAddr(c.fam, ip.addr, Unwrap(c.len)) = c.addr

\* Cidr::new: the length within the family's width and no host bit set.
CidrNew(ip, len) ==
    IF /\ IsSome(len)
       /\ Unwrap(len) <= FamilyBits(ip.fam)
       /\ MaskAddr(ip.fam, ip.addr, Unwrap(len)) = ip.addr
    THEN Some(MkCidr(ip.fam, ip.addr, Unwrap(len)))
    ELSE None

\* The network of an address, alone (p = 0) or followed by "/" and a length.
CidrOf(p, ip, len) ==
    IF ~IsSome(ip) THEN None
    ELSE IF p = 0 THEN MapSome(ip, new_host)
    ELSE CidrNew(Unwrap(ip), len)

\* The network written in s, p being the position of the last '/' of s.
CidrAt(s, p) ==
    CidrOf(p, IpAddrFromStr(IF p = 0 THEN s ELSE SubSeq(s, 1, p - 1)),
           ParseUInt(SubSeq(s, p + 1, Len(s)), 10, U8Max))

\* AnyIpCidr::from_str: "any", a host address, or address/length.
AnyIpCidrFromStr(s) == IF s = <<"a", "n", "y">> THEN Some(AnyCidr) ELSE CidrAt(s, RFind(s, "/"))

\* Display for AnyIpCidr: a host address is written without its length.
FmtCidr(c) ==
    IF c.fam = "Any" THEN <<"a", "n", "y">>
    ELSE FmtIpAddr(c) \o (IF is_host_address(c) THEN <<>> ELSE <<"/">> \o FmtDec(Unwrap(c.len)))

ParseHexBytes(parts) == Collect([i \in DOMAIN parts |-> ParseUInt(parts[i], 16, U8Max)])

\* MacAddress::from_str: six hexadecimal bytes separated by ':' or '-'.
MacFromStr(s) == OfLen(ParseHexBytes(Split(s, {":", "-"})), 6)

(***************************************************************************)
(* The literals of the netstat -rn format.                                 *)
(***************************************************************************)
StrLink == <<"l", "i", "n", "k">>

StrDefault == <<"d", "e", "f", "a", "u", "l", "t">>

StrBang == <<"!">>

HdrDestination == <<"D", "e", "s", "t", "i", "n", "a", "t", "i", "o", "n">>

HdrGateway == <<"G", "a", "t", "e", "w", "a", "y">>

HdrFlags == <<"F", "l", "a", "g", "s">>

HdrNetif == <<"N", "e", "t", "i", "f">>

HdrExpire == <<"E", "x", "p", "i", "r", "e">>

StrInternet == <<"I", "n", "t", "e", "r", "n", "e", "t", ":">>

StrInternet6 == <<"I", "n", "t", "e", "r", "n", "e", "t", "6", ":">>

StrRoutingTable == <<"R", "o", "u", "t", "i", "n", "g", " ", "t", "a", "b", "l", "e">>

(***************************************************************************)
(* entity.rs, routing_flag.rs, route_entry.rs                              *)
(***************************************************************************)
EntityDefault == [kind |-> "Default"]

EntityCidr(c) == [kind |-> "Cidr", cidr |-> c]

EntityLink(name) == [kind |-> "Link", name |-> name]

EntityMac(mac) == [kind |-> "Mac", mac |-> mac]

Destination(entity, zone) == [entity |-> entity, zone |-> zone]

\* impl From<char> for RoutingFlag
RoutingFlagFrom(c) ==
    CASE c = "1" -> "Proto1"
      [] c = "2" -> "Proto2"
      [] c = "3" -> "Proto3"
      [] c = "B" -> "Blackhole"
      [] c = "C" -> "Cloning"
      [] c = "D" -> "Dynamic"
      [] c = "G" -> "Gateway"
      [] c = "H" -> "Host"
      [] c = "I" -> "IfScope"
      [] c = "L" -> "LlInfo"
      [] c = "M" -> "Modified"
      [] c = "R" -> "Reject"
      [] c = "S" -> "Static"
      [] c = "U" -> "Up"
      [] c = "W" -> "WasCloned"
      [] c = "X" -> "XResolve"
      [] c = "Y" -> "Proxy"
      [] c = "b" -> "Broadcast"
      [] c = "c" -> "PrCloning"
      [] c = "g" -> "Global"
      [] c = "i" -> "IfRef"
      [] c = "m" -> "Multicast"
      [] c = "r" -> "Router"
      [] OTHER -> "Unknown"

parse_flags(flags_s) == {RoutingFlagFrom(flags_s[i]) : i \in 1..Len(flags_s)}

\* The seconds are a u64 in the code; the model reads them up to the largest
\* integer TLC represents.
parse_expire(s) ==
    IF s = StrBang THEN Ok(None)
    ELSE MapOk(OkOr(ParseUInt(s, 10, 2147483647), [kind |-> "ParseExpiration", expiration |-> s]),
               Some)

\* PackIpv4 with three parts packed to the left.
PackIpv4_Left(dest, parts) ==
    CASE Len(parts) = 3 -> Ok(<<parts[1], parts[2], parts[3], 0>>)
      [] Len(parts) = 2 -> Ok(<<parts[1], 0, 0, parts[2]>>)
      [] Len(parts) = 1 -> Ok(<<0, 0, 0, parts[1]>>)
      [] OTHER -> Err([kind |-> "ParseIPv4AddrNComps", n_comps |-> Len(parts), addr |-> dest])

\* The address of the byte-sized parts, packed as inet_addr(3) packs them.
PackIpv4(dest, parts) ==
    CASE Len(parts) = 3 -> Ok(<<parts[1], parts[2], 0, parts[3]>>)
      [] Len(parts) = 2 -> Ok(<<parts[1], 0, 0, parts[2]>>)
      [] Len(parts) = 1 -> Ok(<<0, 0, 0, parts[1]>>)
      [] OTHER -> Err([kind |-> "ParseIPv4AddrNComps", n_comps |-> Len(parts), addr |-> dest])

\* The or_else closure of parse_ipv4dest, parts being the parts of dest
\* parsed as bytes (None when one of them is no byte).
Ipv4Shorthand(dest, parts) ==
    IF IsSome(parts) THEN PackIpv4(dest, Unwrap(parts))
    ELSE Err([kind |-> "ParseIPv4AddrBadInt", addr |-> dest])

ParseBytes(strs) == Collect([i \in DOMAIN strs |-> ParseUInt(strs[i], 10, U8Max)])

\* Result::or_else
OkOrElse(o, r) == IF IsSome(o) THEN Ok(Unwrap(o)) ELSE r

parse_ipv4dest(dest) ==
    OkOrElse(Ipv4FromStr(dest), Ipv4Shorthand(dest, ParseBytes(Split(dest, {"."}))))

\* Entity::Cidr(AnyIpCidr::new_host(IpAddr::V4(addr)))
V4Host(addr) == EntityCidr(new_host(IpV4(addr)))

\* Entity::Cidr(AnyIpCidr::new_host(IpAddr::V6(addr)))
V6Host(addr) == EntityCidr(new_host(IpV6(addr)))

\* The entity r when the address parse gave one, else text as a MAC address.
OrMac(r, text, dest) ==
    IF r.ok THEN r
    ELSE OkOr(MapSome(MacFromStr(text), EntityMac), [kind |-> "ParseMacAddr", dest |-> dest])

parse_simple_destination(dest) ==
    IF dest = StrDefault THEN Ok(EntityDefault)
    ELSE IF Contains(dest, "/")
    THEN OkOr(MapSome(AnyIpCidrFromStr(dest), EntityCidr),
              [kind |-> "ParseDestination", value |-> dest])
    ELSE IF Contains(dest, ".")
    THEN OrMac(MapOk(parse_ipv4dest(dest), V4Host), Replace(dest, ".", ":"), dest)
    ELSE IF Contains(dest, ":")
    THEN OrMac(OkOr(MapSome(Ipv6FromStr(dest), V6Host), None), dest, dest)
    ELSE MapOk(parse_ipv4dest(dest), V4Host)

\* The destination of entity r with the zone, or the error r.
WithZone(r, zone) == IF r.ok THEN Ok(Destination(r.val, zone)) ELSE r

\* The zoned branch of parse_destination once the address before '%' is
\* parsed: zone_etc is the text from '%' on, split on '/'.
ZonedCidr(addr, zone_etc) ==
    IF ~addr.ok THEN addr
    ELSE IF Len(zone_etc) >= 2
    THEN WithZone(parse_simple_destination(FmtCidr(addr.val) \o zone_etc[2]), Some(zone_etc[1]))
    ELSE Ok(Destination(EntityCidr(addr.val), Some(zone_etc[1])))

Zoned(addr_s, zone_etc) ==
    ZonedCidr(OkOr(AnyIpCidrFromStr(addr_s), [kind |-> "ParseDestination", value |-> addr_s]),
              Split(zone_etc, {"/"}))

\* dest.split_at(pos)
ZonedAt(dest, pos) == Zoned(SubSeq(dest, 1, pos - 1), SubSeq(dest, pos, Len(dest)))

parse_destination(dest) ==
    IF StartsWith(dest, StrLink) THEN Ok(Destination(EntityLink(dest), None))
    ELSE IF Contains(dest, "%") THEN ZonedAt(dest, Find(dest, "%"))
    ELSE WithZone(parse_simple_destination(dest), None)

\* The fields RouteEntry::parse collects while it scans a row.
NoFields == [flags |-> {}, dest |-> None, gateway |-> None, net_if |-> None, expires |-> None]

\* The fields with the parsed value of r stored under the column, or the
\* error r (the ? operator).
Store(r, acc, column) == IF r.ok THEN Ok([acc EXCEPT ![column] = r.val]) ELSE r

\* One header of the scan of RouteEntry::parse with the field paired to it.
ScanField(header, field, acc) ==
    CASE header \in {HdrDestination, HdrGateway} ->
            Store(MapOk(parse_destination(field), Some), acc,
                  IF header = HdrDestination THEN "dest" ELSE "gateway")
      [] header = HdrFlags -> Ok([acc EXCEPT !.flags = parse_flags(field)])
      [] header = HdrNetif -> Ok([acc EXCEPT !.net_if = Some(field)])
      [] header = HdrExpire -> Store(parse_expire(field), acc, "expires")
      [] OTHER -> Ok(acc)

\* The scan of RouteEntry::parse: headers zipped with fields, left to right;
\* the first field that fails to parse ends it with that error.
RECURSIVE ScanFields(_, _, _)
ScanFields(headers, fields, acc) ==
    IF headers = <<>> \/ fields = <<>> \/ ~acc.ok THEN acc
    ELSE ScanFields(Tail(headers), Tail(fields), ScanField(Head(headers), Head(fields), acc.val))

\* BuildRoute with an empty interface name in the place of a missing one.
BuildRoute_DefaultInterface(proto, scan) ==
    IF ~scan.ok THEN scan
    ELSE IF ~IsSome(scan.val.dest) THEN Err([kind |-> "MissingDestination"])
    ELSE IF ~IsSome(scan.val.gateway) THEN Err([kind |-> "MissingGateway"])
    ELSE Ok([proto |-> proto,
             dest |-> Unwrap(scan.val.dest),
             gateway |-> Unwrap(scan.val.gateway),
             flags |-> scan.val.flags,
             net_if |-> IF IsSome(scan.val.net_if) THEN Unwrap(scan.val.net_if) ELSE <<>>,
             expires |-> scan.val.expires])

\* The RouteEntry built after the scan, or the first missing column.
BuildRoute(proto, scan) ==
    IF ~scan.ok THEN scan
    ELSE IF ~IsSome(scan.val.dest) THEN Err([kind |-> "MissingDestination"])
    ELSE IF ~IsSome(scan.val.gateway) THEN Err([kind |-> "MissingGateway"])
    ELSE IF ~IsSome(scan.val.net_if) THEN Err([kind |-> "MissingInterface"])
    ELSE Ok([proto |-> proto,
             dest |-> Unwrap(scan.val.dest),
             gateway |-> Unwrap(scan.val.gateway),
             flags |-> scan.val.flags,
             net_if |-> Unwrap(scan.val.net_if),
             expires |-> scan.val.expires])

\* RouteEntry::parse
RouteEntryParse(proto, line, headers) ==
    BuildRoute(proto, ScanFields(headers, split_ascii_whitespace(line), Ok(NoFields)))

\* contains with a zoned Cidr destination matching no address.
contains_ZoneAware(route, addr) ==
    CASE route.dest.entity.kind = "Cidr" ->
            route.dest.zone = None /\ CidrContains(route.dest.entity.cidr, addr)
      [] route.dest.entity.kind = "Default" ->
            CASE route.gateway.entity.kind = "Cidr" -> route.proto = addr.fam
              [] route.gateway.entity.kind \in {"Link", "Mac"} -> TRUE
              [] OTHER -> FALSE
      [] OTHER -> FALSE

\* contains with a Link destination taken as a match.
contains_LinkMatch(route, addr) ==
    CASE route.dest.entity.kind = "Cidr" -> CidrContains(route.dest.entity.cidr, addr)
      [] route.dest.entity.kind = "Default" ->
            CASE route.gateway.entity.kind = "Cidr" -> route.proto = addr.fam
              [] route.gateway.entity.kind \in {"Link", "Mac"} -> TRUE
              [] OTHER -> FALSE
      [] route.dest.entity.kind = "Link" -> TRUE
      [] OTHER -> FALSE

\* contains with the protocol of a default route ignored.
contains_AnyProtocol(route, addr) ==
    CASE route.dest.entity.kind = "Cidr" -> CidrContains(route.dest.entity.cidr, addr)
      [] route.dest.entity.kind = "Default" -> route.gateway.entity.kind # "Default"
      [] OTHER -> FALSE

\* contains with every Mac or Link destination taken as a match.
contains_MacLinkMatch(route, addr) ==
    CASE route.dest.entity.kind = "Cidr" -> CidrContains(route.dest.entity.cidr, addr)
      [] route.dest.entity.kind = "Default" ->
            CASE route.gateway.entity.kind = "Cidr" -> route.proto = addr.fam
              [] route.gateway.entity.kind \in {"Link", "Mac"} -> TRUE
              [] OTHER -> FALSE
      [] OTHER -> TRUE

\* RouteEntry::contains
contains(route, addr) ==
    CASE route.dest.entity.kind = "Cidr" -> CidrContains(route.dest.entity.cidr, addr)
      [] route.dest.entity.kind = "Default" ->
            CASE route.gateway.entity.kind = "Cidr" -> route.proto = addr.fam
              [] route.gateway.entity.kind \in {"Link", "Mac"} -> TRUE
              [] OTHER -> FALSE
      [] OTHER -> FALSE

\* The comparison of the network lengths of two Cidr destinations: a length
\* of None (a Cidr of the Any kind) is the panic of most_precise.
LongerPrefix(cidr_nl, other_nl) ==
    IF IsSome(cidr_nl) /\ IsSome(other_nl)
    THEN IF Unwrap(cidr_nl) >= Unwrap(other_nl) THEN "self" ELSE "other"
    ELSE "panic"

\* most_precise with a Default destination kept against every other.
most_precise_DefaultKept(self, other) ==
    CASE self.dest.entity.kind = "Mac" -> "self"
      [] self.dest.entity.kind = "Link" ->
            IF other.dest.entity.kind = "Mac" THEN "other" ELSE "self"
      [] self.dest.entity.kind = "Cidr" ->
            CASE other.dest.entity.kind \in {"Mac", "Link"} -> "other"
              [] other.dest.entity.kind = "Cidr" ->
                    LongerPrefix(network_length(self.dest.entity.cidr),
                                 network_length(other.dest.entity.cidr))
              [] OTHER -> "self"
      [] OTHER -> "self"

\* RouteEntry::most_precise: which of the two references is returned, or
\* "panic".
most_precise(self, other) ==
    CASE self.dest.entity.kind = "Mac" -> "self"
      [] self.dest.entity.kind = "Link" ->
            IF other.dest.entity.kind = "Mac" THEN "other" ELSE "self"
      [] self.dest.entity.kind = "Cidr" ->
            CASE other.dest.entity.kind \in {"Mac", "Link"} -> "other"
              [] other.dest.entity.kind = "Cidr" ->
                    LongerPrefix(network_length(self.dest.entity.cidr),
                                 network_length(other.dest.entity.cidr))
              [] OTHER -> "self"
      [] OTHER -> IF other.dest.entity.kind = "Default" THEN "self" ELSE "other"

\* The result of a call that may panic: the value returned, or the panic.
Returned(v) == [panic |-> FALSE, ret |-> v]

Panicked == [panic |-> TRUE, ret |-> None]

\* The closure of the fold of find_route_entry: old is the accumulator
\* (None, or the position of the route kept so far), new the position of the
\* next route that passes the filter, kept what most_precise says of them.
Keep(old, new, kept) ==
    IF kept = "panic" THEN Panicked
    ELSE Returned(IF kept = "self" THEN old ELSE Some(new))

\* The filter and fold of find_route_entry from position i on.
RECURSIVE FoldRoutes(_, _, _, _)
FoldRoutes(routes, addr, i, old) ==
    IF i > Len(routes) \/ old.panic THEN old
    ELSE IF ~contains(routes[i], addr) THEN FoldRoutes(routes, addr, i + 1, old)
    ELSE IF old.ret = None THEN FoldRoutes(routes, addr, i + 1, Returned(Some(i)))
    ELSE FoldRoutes(routes, addr, i + 1,
                    Keep(old.ret, i, most_precise(routes[Unwrap(old.ret)], routes[i])))

\* find_route_entry without the filter: the first route of the table.
find_route_entry_Unfiltered(table, addr) ==
    IF table.routes = <<>> THEN Returned(None) ELSE Returned(Some(1))

\* RoutingTable::find_route_entry: the position in table.routes of the
\* entry whose reference is returned.
find_route_entry(table, addr) == FoldRoutes(table.routes, addr, 1, Returned(None))

\* RoutingTable::default_gateways_for_netif
default_gateways_for_netif(table, net_if) ==
    IF net_if \in DOMAIN table.if_router THEN Some(table.if_router[net_if]) ELSE None

(***************************************************************************)
(* The input alphabet: the tokens and lines snapshots are made of.         *)
(***************************************************************************)
\* "10.0.0.0/8"
TokNet8 == <<"1", "0", ".", "0", ".", "0", ".", "0", "/", "8">>

\* "10.1.0.0/16"
TokNet16 == <<"1", "0", ".", "1", ".", "0", ".", "0", "/", "1", "6">>

\* "10.0.0.1"
TokGw == <<"1", "0", ".", "0", ".", "0", ".", "1">>

\* "link#4"
TokLink4 == <<"l", "i", "n", "k", "#", "4">>

\* "1:2:3:4:5:6"
TokMac == <<"1", ":", "2", ":", "3", ":", "4", ":", "5", ":", "6">>

\* "any%en0"
TokAnyZone == <<"a", "n", "y", "%", "e", "n", "0">>

\* "fe80::1%en0"
TokV6Gw == <<"f", "e", "8", "0", ":", ":", "1", "%", "e", "n", "0">>

\* "fe80::%lo0/64"
TokV6Net == <<"f", "e", "8", "0", ":", ":", "%", "l", "o", "0", "/", "6", "4">>

\* "en0"
TokEn0 == <<"e", "n", "0">>

\* "en1"
TokEn1 == <<"e", "n", "1">>

\* "lo0"
TokLo0 == <<"l", "o", "0">>

\* "UGSc"
TokFlagsGw == <<"U", "G", "S", "c">>

\* "UCS"
TokFlagsNet == <<"U", "C", "S">>

\* "UHLWIi"
TokFlagsHost == <<"U", "H", "L", "W", "I", "i">>

\* "1200"
TokExp == <<"1", "2", "0", "0">>

\* The text of a row: its fields separated by single spaces.
RECURSIVE Row(_)
Row(fields) ==
    IF fields = <<>> THEN <<>>
    ELSE IF Len(fields) = 1 THEN fields[1]
    ELSE fields[1] \o <<" ">> \o Row(Tail(fields))

HeaderLine == Row(<<HdrDestination, HdrGateway, HdrFlags, HdrNetif, HdrExpire>>)

\* "Routing tables"
BannerLine == StrRoutingTable \o <<"s">>

BlankLine == <<>>

\* "How now brown cow."
BadLine == Row(<<<<"H", "o", "w">>, <<"n", "o", "w">>, <<"b", "r", "o", "w", "n">>, <<"c", "o", "w", ".">>>>)

RowNet8 == Row(<<TokNet8, TokLink4, TokFlagsNet, TokEn0>>)

RowNet16 == Row(<<TokNet16, TokGw, TokFlagsGw, TokEn1>>)

RowDefaultGw == Row(<<StrDefault, TokGw, TokFlagsGw, TokEn0>>)

RowDefaultNet == Row(<<StrDefault, TokNet8, TokFlagsGw, TokEn1>>)

RowDefaultLink == Row(<<StrDefault, TokLink4, TokFlagsNet, TokEn1, StrBang>>)

RowDefaultMac == Row(<<StrDefault, TokMac, TokFlagsNet, TokEn0>>)

RowDefaultDefault == Row(<<StrDefault, StrDefault, TokFlagsNet, TokEn0>>)

RowMac == Row(<<TokMac, TokLink4, TokFlagsHost, TokEn0, TokExp>>)

RowLink == Row(<<TokLink4, TokMac, TokFlagsNet, TokEn0>>)

RowAny == Row(<<TokAnyZone, TokV6Gw, TokFlagsNet, TokEn0>>)

RowV6Net == Row(<<TokV6Net, TokV6Gw, TokFlagsNet, TokLo0>>)

\* "default fe80::1%en0 UGSc en0"
RowDefaultV6 == Row(<<StrDefault, TokV6Gw, TokFlagsGw, TokEn0>>)

\* The lines of the snapshots the table builder is checked on: markers,
\* header, banner and blank lines, a malformed row, default routes with every
\* kind of gateway, and rows through the zone paths of the destination parser.
BuilderLines ==
    {StrInternet, StrInternet6, HeaderLine, BannerLine, BlankLine, BadLine,
     RowDefaultGw, RowDefaultV6, RowDefaultNet, RowDefaultLink, RowNet8, RowAny, RowV6Net}

\* The lines of the snapshots the resolver is checked on: every combination
\* of destination and gateway kinds the filter and the comparator tell apart.
ResolverLines ==
    {StrInternet, StrInternet6, HeaderLine, BlankLine,
     RowNet8, RowNet16, RowDefaultGw, RowDefaultLink, RowDefaultMac, RowDefaultDefault,
     RowMac, RowLink, RowAny}

\* The addresses looked up: inside 10.1.0.0/16, inside 10.0.0.0/8 only,
\* outside both, and the IPv6 address fe80::64.
Addrs ==
    {IpV4(<<10, 1, 2, 3>>), IpV4(<<10, 2, 0, 1>>), IpV4(<<192, 168, 1, 1>>),
     IpV6(<<65152, 0, 0, 0, 0, 0, 0, 100>>)}

Netifs == {TokEn0, TokEn1, TokLo0}

\* The number of lines of the longest snapshot.
MaxLines == 5

(***************************************************************************)
(* routing_table.rs: the state of RoutingTable::from_netstat_output while  *)
(* it reads the snapshot, the Result it returns, and the last call made on *)
(* the returned table.                                                     *)
(***************************************************************************)
VARIABLES
    nread,      \* lines taken from the iterator so far
    headers,    \* the column headers of the current section
    routes,     \* the routes parsed so far
    proto,      \* the protocol of the current section, None before the first
    if_router,  \* interface name -> gateways of its default routes
    result,     \* None while parsing, then Some(Ok(table)) or Some(Err(e))
    last,       \* the last loop iteration: its line, and the header line it took
    reply,      \* the last query made on the table, with its outcome
    snapshot,   \* the lines taken from the iterator so far, where recorded
    input,      \* the argument of a direct call of one of the parsers
    output      \* None before that call, then Some of what it returned

vars == <<nread, headers, routes, proto, if_router, result, last, reply, snapshot, input, output>>

\* from_netstat_output before its first line.
NotStarted ==
    /\ nread = 0
    /\ headers = <<>>
    /\ routes = <<>>
    /\ proto = None
    /\ if_router = <<>>
    /\ result = None
    /\ last = None
    /\ reply = None
    /\ snapshot = <<>>

Init == NotStarted /\ input = None /\ output = None

Iteration(line, hdr) == Some([line |-> line, hdr |-> hdr])

\* The lines the loop skips: empty, or starting with "Routing table".
IsSkipped(line) == line = <<>> \/ StartsWith(line, StrRoutingTable)

IsSection(line) == line \in {StrInternet, StrInternet6}

\* SectionProto with every section read as IPv4.
SectionProto_AlwaysV4(section) == "V4"

SectionProto(section) == IF section = StrInternet THEN "V4" ELSE "V6"

\* if_router.entry(net_if).or_insert_with(Vec::new).push(addr)
PushGateway(map, net_if, addr) ==
    IF net_if \in DOMAIN map
    THEN [map EXCEPT ![net_if] = Append(@, addr)]
    ELSE [k \in DOMAIN map \cup {net_if} |-> IF k = net_if THEN <<addr>> ELSE map[k]]

\* IndexRoute without the is_host_address test.
IndexRoute_AnyGateway(map, route) ==
    IF /\ route.dest.entity.kind = "Default"
       /\ route.gateway.entity.kind = "Cidr"
       /\ route.gateway.entity.cidr.fam # "Any"
    THEN PushGateway(map, route.net_if, Unwrap(first_address(route.gateway.entity.cidr)))
    ELSE map

\* The index update made for a parsed route.
IndexRoute(map, route) ==
    IF /\ route.dest.entity.kind = "Default"
       /\ route.gateway.entity.kind = "Cidr"
       /\ is_host_address(route.gateway.entity.cidr)
    THEN PushGateway(map, route.net_if, Unwrap(first_address(route.gateway.entity.cidr)))
    ELSE map

\* SkipLine with the header list cleared.
SkipLine_ClearsHeaders(line) ==
    /\ result = None
    /\ nread < MaxLines
    /\ IsSkipped(line)
    /\ nread' = nread + 1
    /\ last' = Iteration(line, None)
    /\ headers' = <<>>
    /\ UNCHANGED <<routes, proto, if_router, result, reply>>

\* A loop iteration on an empty line or a banner line: continue.
SkipLine(line) ==
    /\ result = None
    /\ nread < MaxLines
    /\ IsSkipped(line)
    /\ nread' = nread + 1
    /\ last' = Iteration(line, None)
    /\ UNCHANGED <<headers, routes, proto, if_router, result, reply>>

\* SectionMarker with a missing header row taken as an empty one.
SectionMarker_EmptyHeaders(section, next) ==
    /\ result = None
    /\ nread < MaxLines
    /\ ~IsSkipped(section)
    /\ IsSection(section)
    /\ last' = Iteration(section, next)
    /\ proto' = Some(SectionProto(section))
    /\ IF IsSome(next)
       THEN /\ nread + 2 <= MaxLines
            /\ nread' = nread + 2
            /\ headers' = split_ascii_whitespace(Unwrap(next))
       ELSE /\ nread' = nread + 1
            /\ headers' = <<>>
    /\ UNCHANGED <<routes, if_router, result, reply>>

\* SectionMarker with a marker in the place of the header row rejected.
SectionMarker_RejectMarker(section, next) ==
    /\ result = None
    /\ nread < MaxLines
    /\ ~IsSkipped(section)
    /\ IsSection(section)
    /\ last' = Iteration(section, next)
    /\ proto' = Some(SectionProto(section))
    /\ IF IsSome(next) /\ ~IsSection(next[1])
       THEN /\ nread + 2 <= MaxLines
            /\ nread' = nread + 2
            /\ headers' = split_ascii_whitespace(Unwrap(next))
            /\ UNCHANGED result
       ELSE /\ nread + Len(next) + 1 <= MaxLines
            /\ nread' = nread + Len(next) + 1
            /\ result' = Some(Err([kind |-> "NetstatParseNoHeaders", section |-> section]))
            /\ UNCHANGED headers
    /\ UNCHANGED <<routes, if_router, reply>>

\* A loop iteration on a section marker: the protocol is set and the next
\* line, whatever it is, becomes the header row; without a next line the
\* parse fails.
SectionMarker(section, next) ==
    /\ result = None
    /\ nread < MaxLines
    /\ ~IsSkipped(section)
    /\ IsSection(section)
    /\ last' = Iteration(section, next)
    /\ proto' = Some(SectionProto(section))
    /\ IF IsSome(next)
       THEN /\ nread + 2 <= MaxLines
            /\ nread' = nread + 2
            /\ headers' = split_ascii_whitespace(Unwrap(next))
            /\ UNCHANGED result
       ELSE /\ nread' = nread + 1
            /\ result' = Some(Err([kind |-> "NetstatParseNoHeaders", section |-> section]))
            /\ UNCHANGED headers
    /\ UNCHANGED <<routes, if_router, reply>>

\* PushRoute with a row that fails to parse skipped.
PushRoute_SkipBadRow(route) ==
    IF route.ok
    THEN /\ if_router' = IndexRoute(if_router, route.val)
         /\ routes' = Append(routes, route.val)
         /\ UNCHANGED result
    ELSE UNCHANGED <<routes, if_router, result>>

\* The entry arm once the row is parsed: the route is indexed and pushed, or
\* its error is returned.
PushRoute(route) ==
    IF route.ok
    THEN /\ if_router' = IndexRoute(if_router, route.val)
         /\ routes' = Append(routes, route.val)
         /\ UNCHANGED result
    ELSE /\ result' = Some(Err([kind |-> "RouteEntryParse", err |-> route.err]))
         /\ UNCHANGED <<routes, if_router>>

\* DataRow with IPv4 assumed before the first section marker.
DataRow_AssumeV4(entry) ==
    /\ result = None
    /\ nread < MaxLines
    /\ ~IsSkipped(entry)
    /\ ~IsSection(entry)
    /\ nread' = nread + 1
    /\ last' = Iteration(entry, None)
    /\ PushRoute(RouteEntryParse(IF IsSome(proto) THEN Unwrap(proto) ELSE "V4", entry, headers))
    /\ UNCHANGED <<headers, proto, reply>>

\* A loop iteration on any other line: a route entry.
DataRow(entry) ==
    /\ result = None
    /\ nread < MaxLines
    /\ ~IsSkipped(entry)
    /\ ~IsSection(entry)
    /\ nread' = nread + 1
    /\ last' = Iteration(entry, None)
    /\ IF IsSome(proto)
       THEN PushRoute(RouteEntryParse(Unwrap(proto), entry, headers))
       ELSE /\ result' = Some(Err([kind |-> "EntryBeforeProto"]))
            /\ UNCHANGED <<routes, if_router>>
    /\ UNCHANGED <<headers, proto, reply>>

\* The iterator is exhausted: the table is returned.
EndOfInput ==
    /\ result = None
    /\ result' = Some(Ok([routes |-> routes, if_router |-> if_router]))
    /\ UNCHANGED <<nread, headers, routes, proto, if_router, last, reply>>

TableReturned == IsSome(result) /\ Unwrap(result).ok

Table == Unwrap(result).val

\* A call of find_route_entry on the returned table.
FindRouteEntry(addr) ==
    /\ TableReturned
    /\ reply' = Some([op |-> "find_route_entry", arg |-> addr,
                      out |-> find_route_entry(Table, addr)])
    /\ UNCHANGED <<nread, headers, routes, proto, if_router, result, last>>

\* A call of default_gateways_for_netif on the returned table.
DefaultGatewaysForNetif(net_if) ==
    /\ TableReturned
    /\ reply' = Some([op |-> "default_gateways_for_netif", arg |-> net_if,
                      out |-> Returned(default_gateways_for_netif(Table, net_if))])
    /\ UNCHANGED <<nread, headers, routes, proto, if_router, result, last>>

\* The steps of the program on snapshots made of the given lines.
Calls(lines) ==
    \/ \E line \in lines : SkipLine(line)
    \/ \E section \in lines, next \in {None} \cup {Some(l) : l \in lines} :
          SectionMarker(section, next)
    \/ \E entry \in lines : DataRow(entry)
    \/ EndOfInput
    \/ \E addr \in Addrs : FindRouteEntry(addr)
    \/ \E net_if \in Netifs : DefaultGatewaysForNetif(net_if)

Step(lines) == Calls(lines) /\ UNCHANGED <<snapshot, input, output>>

Next == Step(BuilderLines)

Spec == Init /\ [][Next]_vars

NextResolver == Step(ResolverLines)

SpecResolver == Init /\ [][NextResolver]_vars

(***************************************************************************)
(* Properties of the resolver.                                             *)
(***************************************************************************)
\* The last query is a call of find_route_entry.
IsFindReply == IsSome(reply) /\ Unwrap(reply).op = "find_route_entry"

FindArg == Unwrap(reply).arg

FindOut == Unwrap(reply).out

DestKind(route) == route.dest.entity.kind

GatewayKind(route) == route.gateway.entity.kind

\* The positions of the routes that pass the candidate filter for addr.
Candidates(addr) == {i \in 1..Len(routes) : contains(routes[i], addr)}

CandidatesOfKind(addr, kind) == {i \in Candidates(addr) : DestKind(routes[i]) = kind}

\* The prefix length of a Cidr destination; the Any network, which holds
\* every address, counts as the shortest prefix.
PrefixLength(route) ==
    IF IsSome(network_length(route.dest.entity.cidr))
    THEN Unwrap(network_length(route.dest.entity.cidr))
    ELSE 0

\* C1: when the candidates for an address include routes with a Cidr
\* destination, find_route_entry returns the Cidr candidate of the greatest
\* prefix length, the earliest in parse order among those of that length.
C1_LongestPrefixWins ==
    (IsFindReply /\ CandidatesOfKind(FindArg, "Cidr") # {}) =>
        \E best \in CandidatesOfKind(FindArg, "Cidr") :
            /\ FindOut = Returned(Some(best))
            /\ \A j \in CandidatesOfKind(FindArg, "Cidr") :
                  /\ PrefixLength(routes[j]) <= PrefixLength(routes[best])
                  /\ PrefixLength(routes[j]) = PrefixLength(routes[best]) => best <= j

\* A call with two Cidr candidates of different prefix lengths, the longer
\* one second, and a Default candidate before them.
C1_TwoPrefixes ==
    /\ IsFindReply
    /\ \E i, j \in CandidatesOfKind(FindArg, "Cidr") :
          i < j /\ PrefixLength(routes[i]) < PrefixLength(routes[j])
    /\ CandidatesOfKind(FindArg, "Default") # {}

\* C2: find_route_entry returns a route with a Default destination exactly
\* when some Default route is a candidate and no route with a Cidr
\* destination contains the address, and it is then the first Default
\* candidate in parse order.
C2_DefaultIsWeakest ==
    IsFindReply =>
        LET defaults == CandidatesOfKind(FindArg, "Default")
            covered == \E i \in 1..Len(routes) :
                          /\ DestKind(routes[i]) = "Cidr"
                          /\ CidrContains(routes[i].dest.entity.cidr, FindArg)
            isDefault == /\ ~FindOut.panic
                         /\ IsSome(FindOut.ret)
                         /\ DestKind(routes[Unwrap(FindOut.ret)]) = "Default"
        IN  /\ isDefault <=> (defaults # {} /\ ~covered)
            /\ isDefault => \A j \in defaults : Unwrap(FindOut.ret) <= j

\* A call answered by the first of two Default candidates, on a table that
\* also holds a Cidr route that does not contain the address.
C2_DefaultReturned ==
    /\ IsFindReply
    /\ ~FindOut.panic
    /\ IsSome(FindOut.ret)
    /\ DestKind(routes[Unwrap(FindOut.ret)]) = "Default"
    /\ Cardinality(CandidatesOfKind(FindArg, "Default")) >= 2
    /\ \E i \in 1..Len(routes) : DestKind(routes[i]) = "Cidr"

\* The candidate filter as the three cases of the specification.
IsCandidate(route, addr) ==
    \/ /\ DestKind(route) = "Cidr"
       /\ CidrContains(route.dest.entity.cidr, addr)
    \/ /\ DestKind(route) = "Default"
       /\ GatewayKind(route) = "Cidr"
       /\ route.proto = addr.fam
    \/ /\ DestKind(route) = "Default"
       /\ GatewayKind(route) \in {"Link", "Mac"}

\* C3: a route is a candidate for an address exactly when its destination is
\* a Cidr that contains the address, or it is a Default route with a Cidr
\* gateway whose protocol is the family of the address, or it is a Default
\* route with a Link or Mac gateway; every other route is excluded, and a
\* call with no candidate returns None.
C3_CandidateFilter ==
    /\ \A i \in 1..Len(routes) : \A addr \in Addrs :
          contains(routes[i], addr) <=> IsCandidate(routes[i], addr)
    /\ IsFindReply =>
          ((\A i \in 1..Len(routes) : ~IsCandidate(routes[i], FindArg))
              => FindOut = Returned(None))

\* A call that finds no candidate on a table with a Default route whose
\* gateway is a Cidr of the other family, and a Mac or Link destination.
C3_NoCandidate ==
    /\ IsFindReply
    /\ FindOut = Returned(None)
    /\ \E i \in 1..Len(routes) :
          /\ DestKind(routes[i]) = "Default"
          /\ GatewayKind(routes[i]) = "Cidr"
          /\ routes[i].proto # FindArg.fam
    /\ \E i \in 1..Len(routes) : DestKind(routes[i]) \in {"Mac", "Link"}

\* The rank the comparator gives a destination kind.
Rank(kind) ==
    CASE kind = "Mac" -> 3
      [] kind = "Link" -> 2
      [] kind = "Cidr" -> 1
      [] OTHER -> 0

HasDest(kind) == \E i \in 1..Len(routes) : DestKind(routes[i]) = kind

IsSingleHost(cidr) ==
    \/ cidr.fam = "V4" /\ cidr.len = Some(32)
    \/ cidr.fam = "V6" /\ cidr.len = Some(128)

\* The gateway addresses, in parse order, of the routes of rs on net_if with
\* a Default destination and a single-host Cidr gateway.
RECURSIVE Projection(_, _)
Projection(rs, net_if) ==
    IF rs = <<>> THEN <<>>
    ELSE (IF /\ DestKind(Head(rs)) = "Default"
             /\ GatewayKind(Head(rs)) = "Cidr"
             /\ IsSingleHost(Head(rs).gateway.entity.cidr)
             /\ Head(rs).net_if = net_if
          THEN <<[fam |-> Head(rs).gateway.entity.cidr.fam,
                  addr |-> Head(rs).gateway.entity.cidr.addr]>>
          ELSE <<>>) \o Projection(Tail(rs), net_if)

GatewaysOrNone(gws) == IF gws = <<>> THEN None ELSE Some(gws)

\* C5: for every interface name, default_gateways_for_netif returns the
\* gateway addresses, in parse order, of exactly the routes on that
\* interface with a Default destination and a single-host Cidr gateway, and
\* None when there is no such route.
C5_GatewayIndexIsProjection ==
    /\ TableReturned =>
          \A net_if \in Netifs :
              default_gateways_for_netif(Table, net_if)
                  = GatewaysOrNone(Projection(Table.routes, net_if))
    /\ (IsSome(reply) /\ Unwrap(reply).op = "default_gateways_for_netif") =>
          Unwrap(reply).out
              = Returned(GatewaysOrNone(Projection(Table.routes, Unwrap(reply).arg)))

\* A call that returns two gateways of one interface, on a table that also
\* holds a default route with a network as its gateway.
C5_TwoGateways ==
    /\ IsSome(reply)
    /\ Unwrap(reply).op = "default_gateways_for_netif"
    /\ IsSome(Unwrap(reply).out.ret)
    /\ Len(Unwrap(Unwrap(reply).out.ret)) = 2
    /\ \E i \in 1..Len(routes) :
          /\ DestKind(routes[i]) = "Default"
          /\ GatewayKind(routes[i]) = "Cidr"
          /\ ~IsSingleHost(routes[i].gateway.entity.cidr)

\* The last line taken from the snapshot.
LastLineRead == IF IsSome(Unwrap(last).hdr) THEN Unwrap(Unwrap(last).hdr) ELSE Unwrap(last).line

NoHeadersError(section) == Some(Err([kind |-> "NetstatParseNoHeaders", section |-> section]))

\* C6 as stated: a parse that reaches the end of a snapshot whose last line
\* is a section marker fails with the missing-headers error naming it.
C6_MarkerLastLineFails ==
    (IsSome(result) /\ IsSome(last) /\ IsSection(LastLineRead)) =>
        result = NoHeadersError(LastLineRead)

\* C6 amended: when the last line of the snapshot is a section marker that
\* the loop reads as a line of its own, not as the header row of the marker
\* before it, the parse fails with the missing-headers error naming that
\* section and returns no table, whatever was parsed before.
C6_MarkerReadLastFails ==
    (IsSome(last) /\ IsSection(Unwrap(last).line) /\ Unwrap(last).hdr = None) =>
        result = NoHeadersError(Unwrap(last).line)

\* A marker read after a section whose row was parsed, with nothing after it.
C6_MarkerAfterRows ==
    /\ IsSome(last)
    /\ IsSection(Unwrap(last).line)
    /\ Unwrap(last).hdr = None
    /\ routes # <<>>
    /\ result = NoHeadersError(Unwrap(last).line)

\* The loop has just read a marker and taken a marker as its header row.
MarkerAfterMarker ==
    /\ IsSome(last)
    /\ IsSection(Unwrap(last).line)
    /\ IsSome(Unwrap(last).hdr)
    /\ IsSection(Unwrap(Unwrap(last).hdr))

\* C7 as stated: a marker directly followed by another marker makes the
\* parse of the snapshot fail with the missing-headers error.
C7_MarkerAfterMarkerFails ==
    (MarkerAfterMarker /\ IsSome(result)) =>
        \E section \in {StrInternet, StrInternet6} : result = NoHeadersError(section)

\* C7 amended: a marker directly followed by another marker takes the second
\* as its header row: the headers are the one word of that line, the
\* protocol is that of the first marker, and the parse goes on; if the
\* snapshot ends there, the table is returned.
C7_MarkerTakenAsHeaders ==
    MarkerAfterMarker =>
        /\ headers = <<Unwrap(Unwrap(last).hdr)>>
        /\ proto = Some(SectionProto(Unwrap(last).line))
        /\ IsSome(result) => Unwrap(result).ok

\* A snapshot that ends on two different markers in a row after a parsed
\* section, and the table returned for it.
C7_TableAfterTwoMarkers ==
    /\ MarkerAfterMarker
    /\ Unwrap(last).line # Unwrap(Unwrap(last).hdr)
    /\ routes # <<>>
    /\ TableReturned

\* The last line read is a route entry.
LastIsEntry ==
    /\ IsSome(last)
    /\ ~IsSkipped(Unwrap(last).line)
    /\ ~IsSection(Unwrap(last).line)

\* C8: a route entry read before any section marker makes the parse fail at
\* once with the entry-before-protocol error.
C8_EntryBeforeProto ==
    (LastIsEntry /\ proto = None) =>
        /\ result = Some(Err([kind |-> "EntryBeforeProto"]))
        /\ routes = <<>>

\* A stray entry after a banner line and a blank line.
C8_StrayEntryAfterBanner ==
    /\ LastIsEntry
    /\ proto = None
    /\ nread = 3
    /\ result = Some(Err([kind |-> "EntryBeforeProto"]))

\* C9: a row that fails to parse makes the whole parse fail with that row's
\* error, wrapped; no table is returned, and a table that is returned holds
\* every row read.
C9_FailFast ==
    /\ (LastIsEntry /\ IsSome(proto)) =>
          LET route == RouteEntryParse(Unwrap(proto), Unwrap(last).line, headers)
          IN  IF route.ok
              THEN /\ routes # <<>>
                   /\ routes[Len(routes)] = route.val
                   /\ IsSome(result) => Unwrap(result).ok
              ELSE result = Some(Err([kind |-> "RouteEntryParse", err |-> route.err]))
    /\ TableReturned => Table.routes = routes /\ Table.if_router = if_router

\* A row that fails to parse after rows that were parsed.
C9_BadRowAfterGoodRows ==
    /\ LastIsEntry
    /\ IsSome(proto)
    /\ routes # <<>>
    /\ IsSome(result)
    /\ ~Unwrap(result).ok
    /\ Unwrap(result).err.kind = "RouteEntryParse"

IsConcrete(entity) ==
    entity.kind = "Cidr" => (entity.cidr.fam \in {"V4", "V6"} /\ IsSome(entity.cidr.len))

\* C10: every Cidr the destination parser produces, as the destination or
\* the gateway of a route, is an IPv4 or IPv6 network with a prefix length,
\* never the Any network.
C10_ConcreteCidr ==
    \A i \in 1..Len(routes) :
        IsConcrete(routes[i].dest.entity) /\ IsConcrete(routes[i].gateway.entity)

(***************************************************************************)
(* parse_ipv4dest called on its own, on tokens made of dot-separated parts. *)
(***************************************************************************)
\* The parts: bytes, a byte with a sign, a byte with a leading zero, a
\* number above a byte, a word and the empty part.
ShorthandParts ==
    {<<"1", "0">>, <<"1">>, <<"2", "5", "6">>, <<"x">>, <<>>, <<"0", "3">>, <<"+", "3">>}

\* The largest number of parts of a token.
MaxParts == 5

\* The parts with a '.' between them.
RECURSIVE JoinDots(_)
JoinDots(parts) ==
    IF Len(parts) = 1 THEN parts[1]
    ELSE parts[1] \o <<".">> \o JoinDots(Tail(parts))

ShorthandTokens ==
    {JoinDots(parts) : parts \in UNION {[1..n -> ShorthandParts] : n \in 1..MaxParts}}

InitShorthand == NotStarted /\ input \in ShorthandTokens /\ output = None

\* A call of parse_ipv4dest on the token.
ParseIpv4dest ==
    /\ output = None
    /\ output' = Some(parse_ipv4dest(input))
    /\ UNCHANGED <<nread, headers, routes, proto, if_router, result, last, reply, snapshot, input>>

NextShorthand == ParseIpv4dest

SpecShorthand == InitShorthand /\ [][NextShorthand]_vars

\* The value of a part read as an unsigned byte, None when it is none.
AsByte(part) == ParseUInt(part, 10, 255)

\* C11: for a token that is not a strict dotted quad, parse_ipv4dest gives
\* 0.0.0.p0 for one byte part, p0.0.0.p1 for two and p0.p1.0.p2 for three,
\* the component-count error carrying the count for every other number of
\* byte parts, and the bad-integer error when a part is not a byte.
C11_LegacyShorthand ==
    (IsSome(output) /\ ~IsSome(Ipv4FromStr(input))) =>
        LET parts == Split(input, {"."})
            p == [i \in DOMAIN parts |-> AsByte(parts[i])]
        IN  IF \A i \in DOMAIN parts : IsSome(p[i])
            THEN CASE Len(parts) = 1 -> Unwrap(output) = Ok(<<0, 0, 0, p[1][1]>>)
                   [] Len(parts) = 2 -> Unwrap(output) = Ok(<<p[1][1], 0, 0, p[2][1]>>)
                   [] Len(parts) = 3 -> Unwrap(output) = Ok(<<p[1][1], p[2][1], 0, p[3][1]>>)
                   [] OTHER -> Unwrap(output) = Err([kind |-> "ParseIPv4AddrNComps",
                                                     n_comps |-> Len(parts), addr |-> input])
            ELSE Unwrap(output) = Err([kind |-> "ParseIPv4AddrBadInt", addr |-> input])

\* Four byte parts that are no strict dotted quad, refused for their count.
C11_FourPartsRefused ==
    /\ IsSome(output)
    /\ ~Unwrap(output).ok
    /\ Unwrap(output).err.kind = "ParseIPv4AddrNComps"
    /\ Unwrap(output).err.n_comps = 4

(***************************************************************************)
(* from_netstat_output with the lines it takes recorded in snapshot.        *)
(***************************************************************************)
AccountingLines ==
    {StrInternet, StrInternet6, HeaderLine, BlankLine, BannerLine, BadLine,
     RowNet8, RowDefaultGw, RowV6Net}

\* The lines the last loop iteration took from the iterator.
LinesTaken(iteration) ==
    IF IsSome(iteration[1].hdr) THEN <<iteration[1].line, iteration[1].hdr[1]>>
    ELSE <<iteration[1].line>>

\* A step that takes lines appends them to the snapshot.
Recorded ==
    snapshot' = IF nread' > nread THEN snapshot \o LinesTaken(last') ELSE snapshot

NextAccounting == Calls(AccountingLines) /\ Recorded /\ UNCHANGED <<input, output>>

SpecAccounting == Init /\ [][NextAccounting]_vars

\* The data rows of the lines from position i on, each with the protocol of
\* the last section marker before it and the header row that followed that
\* marker: blank and banner lines are no rows, and the line after a marker
\* is its header row.
RECURSIVE DataRows(_, _, _, _)
DataRows(lines, i, protocol, hdr) ==
    IF i > Len(lines) THEN <<>>
    ELSE IF lines[i] = <<>> \/ StartsWith(lines[i], StrRoutingTable)
    THEN DataRows(lines, i + 1, protocol, hdr)
    ELSE IF lines[i] \in {StrInternet, StrInternet6}
    THEN DataRows(lines, i + 2, IF lines[i] = StrInternet6 THEN "V6" ELSE "V4",
                  IF i < Len(lines) THEN split_ascii_whitespace(lines[i + 1]) ELSE <<>>)
    ELSE <<[line |-> lines[i], protocol |-> protocol, hdr |-> hdr]>>
            \o DataRows(lines, i + 1, protocol, hdr)

\* C12: after a successful parse the route list holds one RouteEntry per
\* data row of the snapshot, in the order of the rows, each carrying the
\* protocol of the last section marker before its row and parsed with the
\* header row that followed that marker.
C12_RowAccounting ==
    TableReturned =>
        LET rows == DataRows(snapshot, 1, "none", <<>>)
        IN  /\ Len(Table.routes) = Len(rows)
            /\ \A k \in 1..Len(rows) :
                  /\ Table.routes[k].proto = rows[k].protocol
                  /\ Ok(Table.routes[k])
                        = RouteEntryParse(rows[k].protocol, rows[k].line, rows[k].hdr)

\* A table returned for a snapshot with an empty Internet: section followed
\* by an Internet6: section of one row.
C12_RowAfterSecondMarker ==
    /\ TableReturned
    /\ Len(snapshot) = 5
    /\ snapshot[1] = StrInternet
    /\ snapshot[3] = StrInternet6
    /\ Len(Table.routes) = 1
    /\ Table.routes[1].proto = "V6"

(***************************************************************************)
(* RouteEntry::parse called on its own, on rows and header lists of up to   *)
(* MaxColumns words.                                                        *)
(***************************************************************************)
\* "Refs", a column the parser does not know.
HdrRefs == <<"R", "e", "f", "s">>

ColumnNames == {HdrDestination, HdrGateway, HdrNetif, HdrFlags, HdrRefs}

\* The fields of the rows: one that parses as a destination, one that does
\* not.
FieldTexts == {TokGw, TokEn0}

\* The largest number of headers, and of fields of a row.
MaxColumns == 4

WordLists(words) == UNION {[1..n -> words] : n \in 0..MaxColumns}

InitRow ==
    /\ NotStarted
    /\ input \in {[headers |-> h, line |-> Row(f)] :
                     h \in WordLists(ColumnNames), f \in WordLists(FieldTexts)}
    /\ output = None

\* A call of RouteEntry::parse on the row, in an Internet: section.
ParseRow ==
    /\ output = None
    /\ output' = Some(RouteEntryParse("V4", input.line, input.headers))
    /\ UNCHANGED <<nread, headers, routes, proto, if_router, result, last, reply, snapshot, input>>

NextRow == ParseRow

SpecRow == InitRow /\ [][NextRow]_vars

\* The positions at which a header of the row is paired with a field.
PairedAt == 1..(IF Len(input.headers) < Len(split_ascii_whitespace(input.line))
                THEN Len(input.headers)
                ELSE Len(split_ascii_whitespace(input.line)))

IsPaired(header) == \E i \in PairedAt : input.headers[i] = header

\* The field paired with the last header of that name.
PairedField(header) ==
    split_ascii_whitespace(input.line)[
        CHOOSE i \in PairedAt :
            /\ input.headers[i] = header
            /\ \A j \in PairedAt : input.headers[j] = header => j <= i]

\* Every field paired with a Destination, Gateway or Expire header parses.
PairedFieldsParse ==
    \A i \in PairedAt :
        /\ input.headers[i] \in {HdrDestination, HdrGateway}
              => parse_destination(split_ascii_whitespace(input.line)[i]).ok
        /\ input.headers[i] = HdrExpire
              => parse_expire(split_ascii_whitespace(input.line)[i]).ok

\* C13: for a row whose paired fields all parse, RouteEntry::parse fails
\* with MissingDestination when no Destination header is paired with a
\* field, otherwise with MissingGateway when no Gateway header is, otherwise
\* with MissingInterface when no Netif header is, and otherwise succeeds with
\* the paired fields, whatever other columns are there or not.
C13_RequiredColumns ==
    (IsSome(output) /\ PairedFieldsParse) =>
        IF ~IsPaired(HdrDestination) THEN Unwrap(output) = Err([kind |-> "MissingDestination"])
        ELSE IF ~IsPaired(HdrGateway) THEN Unwrap(output) = Err([kind |-> "MissingGateway"])
        ELSE IF ~IsPaired(HdrNetif) THEN Unwrap(output) = Err([kind |-> "MissingInterface"])
        ELSE /\ Unwrap(output).ok
             /\ Ok(Unwrap(output).val.dest) = parse_destination(PairedField(HdrDestination))
             /\ Ok(Unwrap(output).val.gateway) = parse_destination(PairedField(HdrGateway))
             /\ Unwrap(output).val.net_if = PairedField(HdrNetif)

\* A row whose Netif header lies beyond its last field, after a column the
\* parser does not know: the interface is missing.
C13_NetifBeyondLastField ==
    /\ IsSome(output)
    /\ Unwrap(output) = Err([kind |-> "MissingInterface"])
    /\ \E i \in 1..Len(input.headers) : i \notin PairedAt /\ input.headers[i] = HdrNetif
    /\ IsPaired(HdrRefs)

\* C14: find_route_entry returns None exactly when no route of the table is
\* a candidate for the address, and an entry it returns is a route of the
\* table that passes the candidate filter for the address.
C14_NoneIffNoCandidate ==
    IsFindReply =>
        /\ FindOut = Returned(None) <=> Candidates(FindArg) = {}
        /\ IsSome(FindOut.ret) =>
              /\ Unwrap(FindOut.ret) \in 1..Len(Table.routes)
              /\ Unwrap(FindOut.ret) \in Candidates(FindArg)

\* A call that returns a later route of a table whose first route is no
\* candidate.
C14_LaterCandidateReturned ==
    /\ IsFindReply
    /\ IsSome(FindOut.ret)
    /\ Unwrap(FindOut.ret) > 1
    /\ 1 \notin Candidates(FindArg)

(***************************************************************************)
(* The builder and the resolver on snapshots with zoned tokens.             *)
(***************************************************************************)
\* "link#4%en0"
TokLinkZone == <<"l", "i", "n", "k", "#", "4", "%", "e", "n", "0">>

RowLinkZone == Row(<<TokLinkZone, TokV6Gw, TokFlagsNet, TokEn0>>)

ZoneLines ==
    {StrInternet, StrInternet6, HeaderLine,
     RowNet8, RowDefaultGw, RowDefaultV6, RowV6Net, RowAny, RowLinkZone}

NextZones == Step(ZoneLines)

SpecZones == Init /\ [][NextZones]_vars

\* The zones a field may hold: none, or a zone no token of the rows names.
ZoneValues == {None, Some(<<"%", "z">>)}

\* The routes with the zones of entry i replaced by zones[i].
Rezoned(table, zones) ==
    [table EXCEPT !.routes =
        [i \in DOMAIN table.routes |->
            [table.routes[i] EXCEPT !.dest.zone = zones[i][1], !.gateway.zone = zones[i][2]]]]

\* The last line read is a row parsed under the usual header row.
LastRowParsed ==
    /\ LastIsEntry
    /\ IsSome(proto)
    /\ Len(headers) >= 2
    /\ headers[1] = HdrDestination
    /\ headers[2] = HdrGateway
    /\ RouteEntryParse(Unwrap(proto), Unwrap(last).line, headers).ok

\* The zone is that of a token: none without '%' and for a link token.
ZoneOfToken(zone, token) ==
    /\ IsSome(zone) => Contains(token, "%")
    /\ (~Contains(token, "%") \/ StartsWith(token, StrLink)) => zone = None

\* C15: find_route_entry selects the entry at the same position on every
\* table that differs from the parsed one only in the zones of its
\* destinations and gateways; and a parsed destination or gateway has a
\* zone only when its token contains '%', never for a link token.
C15_ZoneIgnored ==
    /\ IsFindReply =>
          \A zones \in [DOMAIN Table.routes -> ZoneValues \X ZoneValues] :
              find_route_entry(Rezoned(Table, zones), FindArg) = FindOut
    /\ LastRowParsed =>
          /\ ZoneOfToken(routes[Len(routes)].dest.zone,
                         split_ascii_whitespace(Unwrap(last).line)[1])
          /\ ZoneOfToken(routes[Len(routes)].gateway.zone,
                         split_ascii_whitespace(Unwrap(last).line)[2])

\* A call answered by an entry with a zoned destination, on a table that
\* also holds a link token with a '%'.
C15_ZonedEntryReturned ==
    /\ IsFindReply
    /\ IsSome(FindOut.ret)
    /\ IsSome(routes[Unwrap(FindOut.ret)].dest.zone)
    /\ \E i \in 1..Len(routes) :
          DestKind(routes[i]) = "Link" /\ Contains(routes[i].dest.entity.name, "%")

(***************************************************************************)
(* from_netstat_output as a function of the lines of its argument.          *)
(***************************************************************************)
\* The locals of from_netstat_output before the loop.
Locals == [headers |-> <<>>, routes |-> <<>>, proto |-> None, if_router |-> <<>>]

\* The locals after a row is parsed into route, or the error of the parse.
Pushed(st, route) ==
    IF route.ok
    THEN Ok([st EXCEPT !.routes = Append(st.routes, route.val),
                       !.if_router = IndexRoute(st.if_router, route.val)])
    ELSE Err([kind |-> "RouteEntryParse", err |-> route.err])

\* The loop of from_netstat_output from line i on, st being its locals.
RECURSIVE LoopFrom(_, _, _)
LoopFrom(lines, i, st) ==
    IF i > Len(lines) THEN Ok([routes |-> st.routes, if_router |-> st.if_router])
    ELSE IF IsSkipped(lines[i]) THEN LoopFrom(lines, i + 1, st)
    ELSE IF IsSection(lines[i])
    THEN IF i < Len(lines)
         THEN LoopFrom(lines, i + 2,
                       [st EXCEPT !.proto = Some(SectionProto(lines[i])),
                                  !.headers = split_ascii_whitespace(lines[i + 1])])
         ELSE Err([kind |-> "NetstatParseNoHeaders", section |-> lines[i]])
    ELSE IF ~IsSome(st.proto) THEN Err([kind |-> "EntryBeforeProto"])
    ELSE LET pushed == Pushed(st, RouteEntryParse(Unwrap(st.proto), lines[i], st.headers))
         IN  IF pushed.ok THEN LoopFrom(lines, i + 1, pushed.val) ELSE pushed

\* RoutingTable::from_netstat_output
from_netstat_output(lines) == LoopFrom(lines, 1, Locals)

\* The lines with one more line after the first k of them.
InsertedAt(lines, k, line) == SubSeq(lines, 1, k) \o <<line>> \o SubSeq(lines, k + 1, Len(lines))

\* The parse has ended and no query was made yet.
ParseEnded == IsSome(result) /\ reply = None

LoopIsFunction == ParseEnded => from_netstat_output(snapshot) = Unwrap(result)

(***************************************************************************)
(* parse_destination called on its own, on tokens made of an address part,  *)
(* an optional %zone and an optional /bits.                                 *)
(***************************************************************************)
\* "fe80::", "fe80::1", "::", "10.0.0.0", "10.0.0.1", "any", "default",
\* "link#4", "1:2:3:4:5:6" and "x".
AddrTexts ==
    {<<"f", "e", "8", "0", ":", ":">>, <<"f", "e", "8", "0", ":", ":", "1">>, <<":", ":">>,
     <<"1", "0", ".", "0", ".", "0", ".", "0">>, TokGw, <<"a", "n", "y">>, StrDefault,
     TokLink4, TokMac, <<"x">>}

ZoneTexts == {TokLo0, TokEn0}

\* "64", "8", "128", "0" and "32".
BitsTexts == {<<"6", "4">>, <<"8">>, <<"1", "2", "8">>, <<"0">>, <<"3", "2">>}

\* The token A%Z/B.
ZonedToken(a, z, b) == a \o <<"%">> \o z \o <<"/">> \o b

DestTokens ==
    AddrTexts
        \cup {a \o <<"%">> \o z : a \in AddrTexts, z \in ZoneTexts}
        \cup {a \o <<"/">> \o b : a \in AddrTexts, b \in BitsTexts}
        \cup {ZonedToken(a, z, b) : a \in AddrTexts, z \in ZoneTexts, b \in BitsTexts}

InitDestination == NotStarted /\ input \in DestTokens /\ output = None

\* A call of parse_destination on the token.
ParseDestination ==
    /\ output = None
    /\ output' = Some(parse_destination(input))
    /\ UNCHANGED <<nread, headers, routes, proto, if_router, result, last, reply, snapshot, input>>

NextDestination == ParseDestination

SpecDestination == InitDestination /\ [][NextDestination]_vars

\* The network of the address a with the prefix length b, None when a is no
\* address or a/b is no network.
NetworkOf(a, b) == AnyIpCidrFromStr(a \o <<"/">> \o b)

\* C17: for a token A%Z/B where A is an address and A/B a network,
\* parse_destination returns a zone together with the Cidr of address A and
\* prefix length B (fe80::%lo0/64 gives fe80::/64).
C17_BitLengthOverride ==
    IsSome(output) =>
        \A a \in AddrTexts, z \in ZoneTexts, b \in BitsTexts :
            (/\ input = ZonedToken(a, z, b)
             /\ IsSome(IpAddrFromStr(a))
             /\ IsSome(NetworkOf(a, b))) =>
                /\ Unwrap(output).ok
                /\ Unwrap(output).val.entity = EntityCidr(Unwrap(NetworkOf(a, b)))
                /\ IsSome(Unwrap(output).val.zone)

\* C18: on every table the parser builds, find_route_entry returns for every
\* address: the panic of most_precise on a Cidr destination without a
\* prefix length is never taken.
C18_PanicUnreachable == IsFindReply => ~FindOut.panic

\* The pairs of positions most_precise is called on by the fold of
\* find_route_entry from position i on, old being the accumulator.
RECURSIVE Compared(_, _, _, _)
Compared(rs, addr, i, old) ==
    IF i > Len(rs) \/ old.panic THEN {}
    ELSE IF ~contains(rs[i], addr) THEN Compared(rs, addr, i + 1, old)
    ELSE IF old.ret = None THEN Compared(rs, addr, i + 1, Returned(Some(i)))
    ELSE {<<Unwrap(old.ret), i>>}
            \cup Compared(rs, addr, i + 1,
                          Keep(old.ret, i, most_precise(rs[Unwrap(old.ret)], rs[i])))

\* C19: find_route_entry never returns an entry with a Link or Mac
\* destination, and every pair of entries it hands to most_precise has Cidr
\* or Default destinations, so the Mac and Link cases of the comparator are
\* not exercised.
C19_LinkMacNeverCompared ==
    IsFindReply =>
        /\ IsSome(FindOut.ret) => DestKind(routes[Unwrap(FindOut.ret)]) \notin {"Link", "Mac"}
        /\ \A pair \in Compared(Table.routes, FindArg, 1, Returned(None)) :
              /\ DestKind(routes[pair[1]]) \in {"Cidr", "Default"}
              /\ DestKind(routes[pair[2]]) \in {"Cidr", "Default"}

\* A call that compares two candidates on a table that also holds an entry
\* with a Link or Mac destination.
C19_ComparedBesideLinkOrMac ==
    /\ IsFindReply
    /\ Compared(Table.routes, FindArg, 1, Returned(None)) # {}
    /\ HasDest("Mac") \/ HasDest("Link")
====
